---- MODULE Spec2Model ----
(***************************************************************************)
(* bmaptools/TransRead.py: transparent reading of possibly compressed      *)
(* files.  The model covers                                                *)
(*   - _CompressedFile (buffered on-the-fly decompression),                *)
(*   - the fake forward seek()/tell() that _add_fake_seek attaches,        *)
(*   - the TransRead object: __init__, _open_compressed_file, close and    *)
(*     __del__.                                                            *)
(* Loops of the source are taken one iteration per step; pc is the         *)
(* position of the single thread of control.                               *)
(***************************************************************************)
EXTENDS Integers, Sequences, FiniteSets, TLC

\* ---------------------------------------------------------------- bounds
\* longest raw (compressed) source, in bytes
MaxRaw == 2
\* longest decompressed content, in bytes
MaxPlain == 2
\* largest size passed to read()
MaxRead == 3
\* largest offset passed to seek()
MaxSeek == 2
\* most members a tarball holds
MaxMembers == 2
\* largest size of a file or of a tarball member
MaxSize == 2
\* number of explicit close() calls made on one TransRead
MaxCloses == 2

\* ------------------------------------------------------ program constants
\* os.SEEK_SET, os.SEEK_CUR and a whence value that is neither (os.SEEK_END)
SEEK_SET == 0
SEEK_CUR == 1
SEEK_END == 2
\* the floor of chunk_size: 128 * 1024
MinChunk == 131072

Max(a, b) == IF a >= b THEN a ELSE b
Min(a, b) == IF a <= b THEN a ELSE b

\* s[from+1 ..] and s[from+1 .. to], Python's s[from:] and s[from:to] for
\* 0 <= from <= to
Slice(s, from, to) == SubSeq(s, from + 1, Min(to, Len(s)))
From(s, from) == SubSeq(s, from + 1, Len(s))

VARIABLES
    \* ---- _CompressedFile attributes
    buffer,           \* self._buffer
    buffer_pos,       \* self._buffer_pos
    eof,              \* self._eof
    decompress_func,  \* TRUE iff self._decompress_func is set
    has_pos,          \* hasattr(self, "_pos"): _add_fake_seek was applied
    pos,              \* self._pos
    \* ---- the raw source self._file_obj and the decompressor's own state
    raw_len,          \* length of the raw source
    raw_off,          \* its file offset
    plain_len,        \* length of what the raw source decompresses to
    dec_out,          \* bytes the decompressor has emitted so far
    \* ---- control: the running call and the locals of read() and seek()
    pc,               \* "idle", "read_loop", "read_exit", "seek_loop",
                      \* "seek_got", "seek_end"
    caller,           \* who called read(): "user" or "seek"
    req,              \* the size argument read() was called with
    size,             \* read(): size still wanted
    data,             \* read(): bytes collected
    chunk_size,       \* read(): chunk_size
    new_pos,          \* seek(): new_pos
    to_read,          \* seek(): to_read
    ret,              \* value the last read() handed to seek()
    \* ---- observation of the calls
    pre,              \* the object as the running/last call found it
    last,             \* the last completed call and its outcome
    opening,          \* the completed calls, while they are the first two
    delivered,        \* concatenation of everything read() returned
    raw_reads,        \* calls of self._file_obj.read
    dec_calls,        \* calls of self._decompress_func
    \* ---- TransRead
    tr                \* the TransRead object and the handles it owns

cfVars   == <<buffer, buffer_pos, eof, decompress_func, has_pos, pos>>
envVars  == <<raw_len, raw_off, plain_len, dec_out>>
readVars == <<caller, req, size, data, chunk_size>>
seekVars == <<new_pos, to_read, ret>>
obsVars  == <<pre, last, opening, delivered, raw_reads, dec_calls>>
vars     == <<cfVars, envVars, pc, readVars, seekVars, obsVars, tr>>

\* ------------------------------------------------------------ environment
\* The bytes of the raw source and of its decompressed content.  The code
\* never looks into a byte, so each byte is named by where it stands.
RawByte(i) == i
PlainByte(i) == 100 + i
RawBytes(off, k) == [i \in 1..k |-> RawByte(off + i)]
PlainBytes(off, k) == [i \in 1..k |-> PlainByte(off + i)]

\* What a complete read of the stream yields: the decompressed content, or
\* the raw bytes when no decompression function is configured.
Content == IF decompress_func THEN PlainBytes(0, plain_len)
                              ELSE RawBytes(0, raw_len)

\* self._file_obj.read(chunk_size): empty once the source is exhausted, else
\* at least one and at most chunk_size of the bytes left.
FileRead(cs) ==
    IF raw_off = raw_len THEN {0} ELSE 1..Min(cs, raw_len - raw_off)

\* self._decompress_func(buf): the decompressor emits any number of the bytes
\* not emitted yet (none, or more than asked for); it has emitted everything
\* once it was fed the whole raw source.
DecompressOut(off) ==
    IF off = raw_len THEN {plain_len - dec_out} ELSE 0..(plain_len - dec_out)

\* ------------------------------------------------------- _CompressedFile
\* _CompressedFile.__init__: the attributes of a new object
NewBuffer == <<>>
NewBufferPos == 0
NewEof == FALSE

\* Variant: a buffer consumed to its last byte is advanced, not cleared.
ReadFromBuffer_NoClear(b, p, length) ==
    IF Len(b) - p >= length
    THEN [data |-> Slice(b, p, p + length), buffer |-> b, buffer_pos |-> p + length]
    ELSE [data |-> From(b, p), buffer |-> <<>>, buffer_pos |-> 0]

\* Variant: the surplus of the buffer is dropped instead of kept.
ReadFromBuffer_DropsSurplus(b, p, length) ==
    [data |-> Slice(b, p, p + length), buffer |-> <<>>, buffer_pos |-> 0]

\* _CompressedFile._read_from_buffer(length) on buffer b with cursor p: the
\* bytes returned and the buffer and cursor it leaves.
ReadFromBuffer(b, p, length) ==
    IF Len(b) - p > length
    THEN [data |-> Slice(b, p, p + length), buffer |-> b, buffer_pos |-> p + length]
    ELSE [data |-> From(b, p), buffer |-> <<>>, buffer_pos |-> 0]

\* What a call finds: the call and the object before it runs.
Snapshot(op, arg, whence) ==
    [op |-> op, arg |-> arg, whence |-> whence,
     pos |-> pos, eof |-> eof, buffer |-> buffer, buffer_pos |-> buffer_pos,
     raw_reads |-> raw_reads, dec_calls |-> dec_calls]

NoCall == [op |-> "none", arg |-> 0, whence |-> 0, res |-> <<>>, err |-> "none"]

\* The value of opening once a third call has completed.
Later == <<[op |-> "later", arg |-> 0, whence |-> 0, res |-> <<>>, err |-> "none"]>>

\* The call `call` of the user ends: it returns res, or raises err.
Finish(call, res, err) ==
    LET rec == [op |-> call.op, arg |-> call.arg, whence |-> call.whence,
                res |-> res, err |-> err]
    IN  /\ pc' = "idle"
        /\ caller' = "user" /\ req' = 0 /\ size' = 0 /\ data' = <<>>
        /\ chunk_size' = 0
        /\ new_pos' = 0 /\ to_read' = 0 /\ ret' = <<>>
        /\ last' = rec
        /\ opening' = IF Len(opening) < 2 /\ opening # Later
                       THEN Append(opening, rec) ELSE Later

\* read() returns r to who called it: the user, or the loop of seek().
ReturnFromRead(who, call, r) ==
    /\ delivered' = delivered \o r
    /\ IF who = "seek"
       THEN /\ pc' = "seek_got"
            /\ ret' = r
            /\ caller' = "user" /\ req' = 0 /\ size' = 0 /\ data' = <<>>
            /\ chunk_size' = 0
            /\ UNCHANGED <<new_pos, to_read, last, opening>>
       ELSE Finish(call, r, "none")

\* Variant: read() does not test the EOF flag.
EofReached_Never == FALSE

\* read(), line 104: the test of the EOF flag
EofReached == eof

\* read(size), lines 97-113: the assertions, the EOF test, the fetch from the
\* buffer and the choice of chunk_size.
ReadEntry(n, who, call) ==
    IF ~(buffer_pos >= 0 /\ buffer_pos <= Len(buffer))
    THEN /\ Finish(call, <<>>, "AssertionError")
         /\ UNCHANGED <<buffer, buffer_pos, eof, pos, raw_off, dec_out,
                        delivered, raw_reads, dec_calls>>
    ELSE IF EofReached
    THEN /\ ReturnFromRead(who, call, <<>>)
         /\ UNCHANGED <<buffer, buffer_pos, eof, pos, raw_off, dec_out,
                        raw_reads, dec_calls>>
    ELSE LET got == ReadFromBuffer(buffer, buffer_pos, n)
         IN  /\ buffer' = got.buffer
             /\ buffer_pos' = got.buffer_pos
             /\ data' = got.data
             /\ size' = n - Len(got.data)
             /\ chunk_size' = Max(n - Len(got.data), MinChunk)
             /\ caller' = who
             /\ req' = n
             /\ pc' = "read_loop"
             /\ UNCHANGED <<eof, pos, raw_off, dec_out, new_pos, to_read, ret,
                            last, opening, delivered, raw_reads, dec_calls>>

\* Variant: what the chunk holds beyond the request is not kept.
Store_DropsSurplus(buf) ==
    /\ data' = data \o Slice(buf, 0, size)
    /\ size' = size - Len(buf)
    /\ UNCHANGED <<buffer, buffer_pos, pc, caller, req, chunk_size, seekVars,
                   last, opening>>

\* Variant: the whole chunk is handed out, whatever was asked for.
Store_AppendsAll(buf) ==
    /\ data' = data \o buf
    /\ size' = size - Len(buf)
    /\ UNCHANGED <<buffer, buffer_pos, pc, caller, req, chunk_size, seekVars,
                   last, opening>>

\* read(), lines 125-136: buf is the non-empty chunk to hand out.
Store(buf) ==
    IF ~(Len(buffer) = 0 /\ buffer_pos = 0)
    THEN /\ Finish(pre, <<>>, "AssertionError")
         /\ UNCHANGED <<buffer, buffer_pos>>
    ELSE /\ IF Len(buf) >= size
            THEN LET got == ReadFromBuffer(buf, buffer_pos, size)
                 IN  /\ buffer' = got.buffer
                     /\ buffer_pos' = got.buffer_pos
                     /\ data' = data \o got.data
            ELSE /\ data' = data \o buf
                 /\ UNCHANGED <<buffer, buffer_pos>>
         /\ size' = size - Len(buf)
         /\ UNCHANGED <<pc, caller, req, chunk_size, seekVars, last, opening>>

\* Variant: the flag is set but the loop is not left.
MarkEof_NoBreak ==
    /\ eof' = TRUE
    /\ UNCHANGED <<buffer, buffer_pos, pc, readVars, seekVars, last, opening>>

\* read(), lines 116-118: the raw source returned nothing
MarkEof ==
    /\ eof' = TRUE
    /\ pc' = "read_exit"
    /\ UNCHANGED <<buffer, buffer_pos, readVars, seekVars, last, opening>>

\* Variant: a chunk that decompresses to nothing is taken for the end.
Skip_MarksEof ==
    /\ eof' = TRUE
    /\ pc' = "read_exit"
    /\ UNCHANGED <<buffer, buffer_pos, readVars, seekVars, last, opening>>

\* read(), lines 122-123: the chunk decompressed to nothing, `continue`
Skip ==
    /\ eof' = eof
    /\ UNCHANGED <<buffer, buffer_pos, pc, readVars, seekVars, last, opening>>

\* Variant: the loop also runs with nothing left to read.
Wanted_OrZero(sz) == sz >= 0

\* read(), line 114: the test of the loop
Wanted(sz) == sz > 0

\* read(), lines 114-136: one iteration of the loop.
ReadLoop ==
    /\ pc = "read_loop"
    /\ Wanted(size)
    /\ \E k \in FileRead(chunk_size) :
        /\ raw_reads' = raw_reads + 1
        /\ raw_off' = raw_off + k
        /\ IF k = 0
           THEN /\ MarkEof
                /\ UNCHANGED <<dec_out, dec_calls>>
           ELSE IF decompress_func
                THEN \E j \in DecompressOut(raw_off + k) :
                       /\ dec_calls' = dec_calls + 1
                       /\ dec_out' = dec_out + j
                       /\ IF j = 0
                          THEN Skip
                          ELSE /\ Store(PlainBytes(dec_out, j))
                               /\ eof' = eof
                ELSE /\ Store(RawBytes(raw_off, k))
                     /\ eof' = eof
                     /\ UNCHANGED <<dec_out, dec_calls>>
    /\ UNCHANGED <<decompress_func, has_pos, pos, raw_len, plain_len, pre,
                   delivered, tr>>

\* Variant: the counter advances by the size asked for.
Counted_Requested(d) == pos + req

\* read(), line 139: the position counter after d was read
Counted(d) == pos + Len(d)

\* read(), lines 138-141: count the bytes and return them.
ReadExit ==
    /\ pc = "read_exit" \/ (pc = "read_loop" /\ ~Wanted(size))
    /\ pos' = IF has_pos THEN Counted(data) ELSE pos
    /\ ReturnFromRead(caller, pre, data)
    /\ UNCHANGED <<buffer, buffer_pos, eof, decompress_func, has_pos, envVars,
                   pre, raw_reads, dec_calls, tr>>

\* The user calls read(n).
Read(n) ==
    /\ pc = "idle"
    /\ pre' = Snapshot("read", n, SEEK_SET)
    /\ ReadEntry(n, "user", Snapshot("read", n, SEEK_SET))
    /\ UNCHANGED <<decompress_func, has_pos, raw_len, plain_len, tr>>

\* --------------------------------------------------------- the fake seek
\* _fake_tell
Tell == pos

\* Variant: an offset from the current position is taken as absolute.
Target_CurAbsolute(offset, whence) ==
    IF whence \in {SEEK_SET, SEEK_CUR} THEN [ok |-> TRUE, new_pos |-> offset]
    ELSE [ok |-> FALSE, new_pos |-> 0]

\* Variant: a whence that is not SEEK_CUR is taken for SEEK_SET.
Target_AnyWhence(offset, whence) ==
    IF whence = SEEK_CUR THEN [ok |-> TRUE, new_pos |-> pos + offset]
    ELSE [ok |-> TRUE, new_pos |-> offset]

\* _fake_seek_forward, lines 19-26: the target, or not ok for the raise
Target(offset, whence) ==
    IF whence = SEEK_SET THEN [ok |-> TRUE, new_pos |-> offset]
    ELSE IF whence = SEEK_CUR THEN [ok |-> TRUE, new_pos |-> pos + offset]
    ELSE [ok |-> FALSE, new_pos |-> 0]

\* Variant: a seek to the current position counts as backward.
Backward_OrEqual(np) == np <= pos

\* seek(), line 28: the test for a backward seek
Backward(np) == np < pos

\* Variant: the gap is one byte too long.
Length_OffByOne(np) == np - pos + 1

\* seek(), lines 33-34: the number of bytes to read and drop
Length(np) == np - pos

\* The user calls seek(offset, whence): lines 14-34.
Seek(offset, whence) ==
    /\ pc = "idle"
    /\ has_pos
    /\ pre' = Snapshot("seek", offset, whence)
    /\ LET call == Snapshot("seek", offset, whence)
           t == Target(offset, whence)
       IN  IF ~t.ok
           THEN Finish(call, <<>>, "Error: whence")
           ELSE IF Backward(t.new_pos)
           THEN Finish(call, <<>>, "Error: backward")
           ELSE /\ new_pos' = t.new_pos
                /\ to_read' = Length(t.new_pos)
                /\ pc' = "seek_loop"
                /\ UNCHANGED <<readVars, ret, last, opening>>
    /\ UNCHANGED <<cfVars, envVars, delivered, raw_reads, dec_calls, tr>>

\* seek(), lines 35-36: the loop calls self.read(to_read).
SeekLoop ==
    /\ pc = "seek_loop"
    /\ to_read > 0
    /\ ReadEntry(to_read, "seek", pre)
    /\ UNCHANGED <<decompress_func, has_pos, raw_len, plain_len, pre, tr>>

\* seek(), lines 37-39: what the loop does with the bytes read.
SeekGot ==
    /\ pc = "seek_got"
    /\ IF ret = <<>>
       THEN /\ pc' = "seek_end"
            /\ UNCHANGED to_read
       ELSE /\ to_read' = to_read - Len(ret)
            /\ pc' = "seek_loop"
    /\ ret' = <<>>
    /\ UNCHANGED <<cfVars, envVars, readVars, new_pos, obsVars, tr>>

\* seek(), lines 41-43: after the loop.
SeekEnd ==
    /\ pc = "seek_end" \/ (pc = "seek_loop" /\ to_read <= 0)
    /\ IF to_read < 0
       THEN Finish(pre, <<>>, "Error: too far")
       ELSE Finish(pre, <<>>, "none")
    /\ UNCHANGED <<cfVars, envVars, pre, delivered, raw_reads, dec_calls, tr>>

\* -------------------------------------------------------------- TransRead
\* A file name is the sequence of its dot-separated parts: "a.tar.gz" is
\* <<"a", "tar", "gz">>.  name.endswith(suffix), suffix given by its parts.
EndsWith(name, suffix) ==
    /\ Len(name) >= Len(suffix)
    /\ SubSeq(name, Len(name) - Len(suffix) + 1, Len(name)) = suffix

Names == { <<"a", "tar", "gz">>, <<"a", "tar", "bz2">>, <<"a", "tgz">>,
           <<"a", "gz">>, <<"a", "bz2">>, <<"a", "img">> }

\* What open(self.name, "rb") does: it succeeds, or raises IOError with
\* errno ENOENT or with another errno.
LocalOpens == {"ok", "ENOENT", "EACCES"}

\* The contents of a tarball: the sizes of its members, in order.
Tarballs == UNION { [1..n -> 1..MaxSize] : n \in 0..MaxMembers }

\* The objects a TransRead holds: the raw source (local file or URL), the
\* TarFile, the member stream it extracts, the GzipFile, the _CompressedFile.
RAW == "raw"
TAR == "tar"
MEMBER == "member"
GZIP == "gzip"
CF == "cf"

\* TransRead.__init__, lines 205-210: the attributes before anything is
\* opened.  size -1 stands for None; made is the set of objects created so
\* far, open those of them not closed, log the objects each close()/__del__
\* run has called close() on, members what tar.getmembers() returned.
NewTransRead(name) ==
    [state |-> "init", name |-> name, size |-> -1, is_compressed |-> TRUE,
     is_url |-> FALSE, file_obj |-> "None", transfile_obj |-> "None",
     err |-> "none", made |-> {}, open |-> {}, log |-> <<>>,
     members |-> <<>>]

\* raise Error(...) out of __init__
Fails(t, why) == [t EXCEPT !.state = "failed", !.err = why]

\* Variant: a tarball of several members is accepted.
TooMany_Never(members) == FALSE

\* _open_compressed_file, line 167: the test for more than one member
TooMany(members) == Len(members) > 1

\* TransRead._open_compressed_file, lines 153-194.  members is what the
\* tarball holds, fsize what os.fstat reports, io_error whether tarfile.open
\* raises IOError.
OpenCompressedFile(t, members, fsize, io_error) ==
    IF \/ EndsWith(t.name, <<"tar", "gz">>)
       \/ EndsWith(t.name, <<"tar", "bz2">>)
       \/ EndsWith(t.name, <<"tgz">>)
    THEN IF io_error
         THEN Fails(t, "Error: cannot open file")
         ELSE LET u == [t EXCEPT !.made = @ \cup {TAR}, !.open = @ \cup {TAR},
                                 !.members = members]
              IN  IF TooMany(members)
                  THEN Fails(u, "Error: more than one file")
                  ELSE IF Len(members) = 0
                  THEN Fails(u, "Error: empty")
                  ELSE [u EXCEPT !.transfile_obj = MEMBER,
                                 !.size = members[1],
                                 !.made = @ \cup {MEMBER},
                                 !.open = @ \cup {MEMBER}]
    ELSE IF EndsWith(t.name, <<"gz">>)
    THEN [t EXCEPT !.transfile_obj = GZIP,
                   !.made = @ \cup {GZIP}, !.open = @ \cup {GZIP}]
    ELSE IF EndsWith(t.name, <<"bz2">>)
    THEN [t EXCEPT !.transfile_obj = CF,
                   !.made = @ \cup {CF}, !.open = @ \cup {CF}]
    ELSE [t EXCEPT !.is_compressed = FALSE,
                   !.transfile_obj = t.file_obj,
                   !.size = IF t.is_url THEN t.size ELSE fsize,
                   !.file_obj = "None"]

\* TransRead.__init__, lines 201-230: open the path, or the URL when there
\* is no such file, then wire the format layer.
Construct(name, local, url_ok, members, fsize, io_error) ==
    LET t == NewTransRead(name)
        got == [t EXCEPT !.file_obj = RAW, !.made = {RAW}, !.open = {RAW}]
    IN  IF local = "ok"
        THEN OpenCompressedFile(got, members, fsize, io_error)
        ELSE IF local = "ENOENT"
        THEN IF url_ok
             THEN OpenCompressedFile([got EXCEPT !.is_url = TRUE],
                                     members, fsize, io_error)
             ELSE Fails(t, "Error: cannot open URL")
        ELSE Fails(t, "Error: cannot open file")

\* TransRead(filepath): the constructor returns the object, or raises.
Open ==
    /\ tr.state = "new"
    /\ \E name \in Names, local \in LocalOpens, url_ok \in BOOLEAN,
          members \in Tarballs, fsize \in 0..MaxSize, io_error \in BOOLEAN :
          LET t == Construct(name, local, url_ok, members, fsize, io_error)
          IN  /\ tr' = IF t.state = "failed" THEN t
                                             ELSE [t EXCEPT !.state = "open"]
              \* line 184-186: the new _CompressedFile, with the fake seek
              /\ IF t.transfile_obj = CF
                 THEN /\ decompress_func' = TRUE
                      /\ has_pos' = TRUE
                 ELSE UNCHANGED <<decompress_func, has_pos>>
    /\ buffer' = NewBuffer
    /\ buffer_pos' = NewBufferPos
    /\ eof' = NewEof
    /\ pos' = 0
    /\ UNCHANGED <<envVars, pc, readVars, seekVars, obsVars>>

\* Variant: the raw source is closed before the head stream.
Released_RawFirst(t) ==
    (IF t.file_obj # "None" THEN <<t.file_obj>> ELSE <<>>)
    \o (IF t.transfile_obj # "None" THEN <<t.transfile_obj>> ELSE <<>>)

\* TransRead.__del__, lines 241-244: the objects close() is called on, in
\* order.  An object is true whether or not it was closed before.
Released(t) ==
    (IF t.transfile_obj # "None" THEN <<t.transfile_obj>> ELSE <<>>)
    \o (IF t.file_obj # "None" THEN <<t.file_obj>> ELSE <<>>)

\* What obj.close() closes: _CompressedFile.close is `pass`; the others close
\* themselves (a GzipFile or a member stream leaves the raw source open).
Closes(obj) == IF obj = CF THEN {} ELSE {obj}

\* TransRead.__del__ run on t
Del(t) ==
    [t EXCEPT !.log = Append(@, Released(t)),
              !.open = @ \ UNION { Closes(Released(t)[i]) :
                                      i \in 1..Len(Released(t)) }]

\* TransRead.close(), lines 196-199
Close ==
    /\ tr.state = "open"
    /\ Len(tr.log) < MaxCloses
    /\ tr' = Del(tr)
    /\ UNCHANGED <<cfVars, envVars, pc, readVars, seekVars, obsVars>>

\* The object is discarded and the interpreter runs __del__: after a failed
\* __init__, or when the user drops the reader.
Discard ==
    /\ tr.state \in {"open", "failed"}
    /\ tr' = [Del(tr) EXCEPT !.state = "gone"]
    /\ UNCHANGED <<cfVars, envVars, pc, readVars, seekVars, obsVars>>

InitTR ==
    /\ buffer = NewBuffer
    /\ buffer_pos = NewBufferPos
    /\ eof = NewEof
    /\ decompress_func = FALSE
    /\ has_pos = FALSE
    /\ pos = 0
    /\ raw_len = 0
    /\ plain_len = 0
    /\ raw_off = 0
    /\ dec_out = 0
    /\ pc = "idle"
    /\ caller = "user" /\ req = 0 /\ size = 0 /\ data = <<>> /\ chunk_size = 0
    /\ new_pos = 0 /\ to_read = 0 /\ ret = <<>>
    /\ last = NoCall
    /\ opening = <<>>
    /\ delivered = <<>>
    /\ raw_reads = 0
    /\ dec_calls = 0
    /\ pre = Snapshot("none", 0, SEEK_SET)
    /\ tr = [NewTransRead(<<>>) EXCEPT !.state = "new"]

NextTR ==
    \/ Open
    \/ Close
    \/ Discard

SpecTR == InitTR /\ [][NextTR]_vars

\* ------------------------------------------- _CompressedFile on its own
NoTransRead == [NewTransRead(<<>>) EXCEPT !.state = "none"]

Init ==
    /\ buffer = NewBuffer
    /\ buffer_pos = NewBufferPos
    /\ eof = NewEof
    /\ decompress_func \in BOOLEAN
    /\ has_pos \in BOOLEAN
    /\ pos = 0
    /\ raw_len \in 0..MaxRaw
    /\ plain_len \in IF decompress_func /\ raw_len > 0 THEN 0..MaxPlain ELSE {0}
    /\ raw_off = 0
    /\ dec_out = 0
    /\ pc = "idle"
    /\ caller = "user" /\ req = 0 /\ size = 0 /\ data = <<>> /\ chunk_size = 0
    /\ new_pos = 0 /\ to_read = 0 /\ ret = <<>>
    /\ last = NoCall
    /\ opening = <<>>
    /\ delivered = <<>>
    /\ raw_reads = 0
    /\ dec_calls = 0
    /\ pre = Snapshot("none", 0, SEEK_SET)
    /\ tr = NoTransRead

Next ==
    \/ \E n \in 0..MaxRead : Read(n)
    \/ ReadLoop
    \/ ReadExit
    \/ \E offset \in (-1)..MaxSeek, whence \in {SEEK_SET, SEEK_CUR, SEEK_END} :
          Seek(offset, whence)
    \/ SeekLoop
    \/ SeekGot
    \/ SeekEnd

Spec == Init /\ [][Next]_vars

\* ================================================================ claims
\* Everything the decompression function (or the raw source, when there is
\* none) has put out so far.
Produced == IF decompress_func THEN PlainBytes(0, dec_out)
                               ELSE RawBytes(0, raw_off)

\* The bytes of the buffer not handed out yet.
Undelivered == From(buffer, buffer_pos)

\* The last completed call returned normally.
LastOk(op) == last.op = op /\ last.err = "none"

\* The absolute target of the last completed seek (whence SEEK_SET or
\* SEEK_CUR), resolved against the counter the call found.
LastTarget == IF last.whence = SEEK_SET THEN last.arg ELSE pre.pos + last.arg

\* C1: the results of the successive reads, concatenated, are the outputs of
\* the decompressor, concatenated: at every moment what was returned, what
\* the running read has collected and what is still buffered make up exactly
\* what was put out, and once a read of a positive size returns empty
\* everything put out, the whole content, has been returned.
C1_ReadsReproduceOutput ==
    /\ delivered \o data \o Undelivered = Produced
    /\ (LastOk("read") /\ last.arg > 0 /\ last.res = <<>>)
          => (delivered = Produced /\ Produced = Content)

C1_Witness ==
    /\ LastOk("read") /\ last.arg > 0 /\ last.res = <<>>
    /\ decompress_func
    /\ dec_calls >= 2
    /\ Len(delivered) >= 2
    /\ delivered = Content

\* C2: seek(k) on a fresh stream followed by read(m) returns what read(k+m)
\* on a fresh stream of the same content returns, less its first k bytes:
\* both are bytes k+1 .. k+m of the content.
C2_SeekThenRead ==
    \A k \in 0..MaxSeek, m \in 0..MaxRead :
        LET skipped == From(Slice(Content, 0, k + m), k)
        IN  /\ ( /\ Len(opening) = 2
                 /\ opening[1].op = "seek" /\ opening[1].arg = k
                 /\ opening[1].whence = SEEK_SET /\ opening[1].err = "none"
                 /\ opening[2].op = "read" /\ opening[2].arg = m )
               => (opening[2].err = "none" /\ opening[2].res = skipped)
            /\ ( /\ opening # Later /\ Len(opening) >= 1
                 /\ opening[1].op = "read" /\ opening[1].arg = k + m )
               => (opening[1].err = "none" /\ From(opening[1].res, k) = skipped)

C2_Witness ==
    /\ Len(opening) = 2
    /\ opening[1].op = "seek" /\ opening[1].arg = 1
    /\ opening[1].whence = SEEK_SET /\ opening[1].err = "none"
    /\ opening[2].op = "read" /\ opening[2].arg = 1
    /\ opening[2].res = <<PlainByte(2)>>

\* C3: a seek whose target lies beyond the data available raises an error.
C3_SeekPastEndFails ==
    ( /\ last.op = "seek"
      /\ last.whence \in {SEEK_SET, SEEK_CUR}
      /\ LastTarget >= pre.pos
      /\ LastTarget > Len(Content) )
    => last.err # "none"

\* C4: a seek to a target behind the counter raises an error; a seek to a
\* target at or ahead of the counter and within the content returns normally,
\* with the counter at the target.
C4_SeekBackwardFailsForwardSucceeds ==
    (last.op = "seek" /\ last.whence \in {SEEK_SET, SEEK_CUR}) =>
        /\ LastTarget < pre.pos => last.err # "none"
        /\ (LastTarget >= pre.pos /\ LastTarget <= Len(Content))
              => (last.err = "none" /\ (pc = "idle" => Tell = LastTarget))

C4_Witness ==
    /\ LastOk("seek")
    /\ pc = "idle"
    /\ pre.pos > 0
    /\ LastTarget > pre.pos
    /\ Tell = LastTarget

\* C5: a read() that finds the EOF flag set returns empty at once, raises
\* nothing, reads nothing from the raw source, calls the decompressor not at
\* all and leaves the flag set.
C5_EofSticky ==
    (pre.op = "read" /\ pre.eof) =>
        /\ pc = "idle"
        /\ LastOk("read") /\ last.res = <<>>
        /\ raw_reads = pre.raw_reads
        /\ dec_calls = pre.dec_calls
        /\ eof

C5_Witness ==
    /\ pre.op = "read" /\ pre.eof /\ pre.arg > 0
    /\ pc = "idle"
    /\ Len(delivered) > 0

\* C6: read(n) returns at most n bytes, fewer than n only with the EOF flag
\* set, and for n > 0 none only with the raw source exhausted and nothing
\* left in the buffer.  The reads seek() makes obey the same rule.
C6_ReadLength ==
    /\ LastOk("read") =>
          /\ Len(last.res) <= last.arg
          /\ Len(last.res) < last.arg => eof
          /\ (last.arg > 0 /\ last.res = <<>>)
                => (raw_off = raw_len /\ (pc = "idle" => Undelivered = <<>>))
    /\ pc = "seek_got" =>
          /\ Len(ret) <= to_read
          /\ Len(ret) < to_read => eof

C6_Witness ==
    /\ LastOk("read")
    /\ pc = "idle"
    /\ Len(last.res) > 0
    /\ Len(last.res) < last.arg
    /\ eof

\* C7: tell() is the number of bytes all read() calls have returned, those
\* made by seek() included, and the counter never decreases.
C7_TellCountsDelivered ==
    /\ [](has_pos => Tell = Len(delivered))
    /\ [][pos' >= pos]_vars

C7_Witness ==
    /\ has_pos
    /\ pc = "idle"
    /\ Len(opening) = 2
    /\ opening[1].op = "read" /\ Len(opening[1].res) = 1
    /\ opening[2].op = "seek" /\ opening[2].err = "none"
    /\ Tell = 2

\* The places of the close() calls made on obj, over all runs of __del__.
CloseCalls(obj) ==
    { ij \in (1..Len(tr.log)) \X (1..2) :
         /\ ij[2] <= Len(tr.log[ij[1]])
         /\ tr.log[ij[1]][ij[2]] = obj }

\* C8: over any sequence of close() calls and the destructor, close() is
\* called on each layer at most once.
C8_EachLayerClosedOnce ==
    \A obj \in {RAW, MEMBER, GZIP, CF} : Cardinality(CloseCalls(obj)) <= 1

\* C9: every run of close()/__del__ on a TransRead that was opened calls
\* close() on the head stream, and, when the raw source is another object,
\* on the head stream first and on the raw source second; the raw source is
\* closed exactly once in that run, also when it is the head stream itself,
\* and is not open afterwards.
C9_HeadThenRaw ==
    (tr.state \in {"open", "gone"} /\ tr.err = "none") =>
        \A i \in 1..Len(tr.log) :
            LET c == tr.log[i]
                at(obj) == { j \in 1..Len(c) : c[j] = obj }
            IN  /\ at(tr.transfile_obj) # {}
                /\ Cardinality(at(RAW)) = 1
                /\ tr.transfile_obj # RAW
                      => \A j \in at(tr.transfile_obj), k \in at(RAW) : j < k
                /\ RAW \notin tr.open

C9_Witness ==
    /\ tr.state = "open"
    /\ Len(tr.log) = 1
    /\ tr.transfile_obj = GZIP
    /\ tr.log[1] = <<GZIP, RAW>>

\* C10: when the constructor raises, nothing it has opened is still open.
C10_FailedOpenReleases ==
    tr.state = "failed" => tr.open = {}

\* The names that end in .tar.gz, .tar.bz2 or .tgz.
TarNames == { <<"a", "tar", "gz">>, <<"a", "tar", "bz2">>, <<"a", "tgz">> }

\* C11: for a name with a tar suffix whose raw source was opened and read as
\* an archive, the constructor succeeds exactly when the archive has one
\* member; then size is that member's size and the head stream is that
\* member's stream; with no member or several the constructor raises and no
\* member stream was made.
C11_TarExactlyOneMember ==
    (tr.name \in TarNames /\ TAR \in tr.made) =>
        /\ tr.err = "none" <=> Len(tr.members) = 1
        /\ Len(tr.members) = 1 =>
              /\ tr.state \in {"open", "gone"}
              /\ tr.size = tr.members[1]
              /\ tr.transfile_obj = MEMBER
        /\ Len(tr.members) # 1 =>
              /\ tr.state \in {"failed", "gone"}
              /\ tr.transfile_obj = "None"
              /\ MEMBER \notin tr.made

C11_Witness ==
    /\ tr.name = <<"a", "tgz">>
    /\ tr.state = "open"
    /\ tr.members = <<2>>
    /\ tr.size = 2
    /\ tr.transfile_obj = MEMBER

\* C12: the cursor stays within the buffer, a buffer read to its end is
\* cleared (the buffer is empty with the cursor at 0, or the cursor stands
\* before its last byte), and no assertion of read() fails.
C12_CursorWithinBuffer ==
    /\ 0 <= buffer_pos /\ buffer_pos <= Len(buffer)
    /\ (buffer = <<>> /\ buffer_pos = 0) \/ buffer_pos < Len(buffer)
    /\ last.err # "AssertionError"

C12_Witness ==
    /\ pc = "idle"
    /\ Len(buffer) = 2
    /\ buffer_pos = 1
    /\ LastOk("read")

\* The bytes the buffer held, not handed out, when the call began.
PreUndelivered == From(pre.buffer, pre.buffer_pos)

\* C13: a read(n) that finds at least n bytes in the buffer takes
\* them from the buffer: it reads nothing from the raw source, calls the
\* decompressor not at all and leaves the EOF flag as it was; read(0) returns
\* empty and leaves buffer, cursor, EOF flag and counter as they were.
C13_ServedFromBuffer ==
    (pre.op = "read" /\ pre.arg <= Len(PreUndelivered)) =>
        /\ raw_reads = pre.raw_reads
        /\ dec_calls = pre.dec_calls
        /\ eof = pre.eof
        /\ pc = "idle" =>
              /\ LastOk("read")
              /\ last.res = SubSeq(PreUndelivered, 1, pre.arg)
              /\ Undelivered = From(PreUndelivered, pre.arg)
              /\ pre.arg = 0 =>
                    /\ last.res = <<>>
                    /\ buffer = pre.buffer
                    /\ buffer_pos = pre.buffer_pos
                    /\ pos = pre.pos

C13_Witness ==
    /\ pre.op = "read" /\ pre.arg = 1
    /\ Len(PreUndelivered) = 1
    /\ pc = "idle"
    /\ Len(last.res) = 1
    /\ raw_reads = pre.raw_reads

\* A step in which the decompressor was called and put out nothing, and one
\* in which the raw source was read and returned nothing.
ZeroOutputStep == dec_calls' = dec_calls + 1 /\ dec_out' = dec_out
EmptyRawReadStep == raw_reads' = raw_reads + 1 /\ raw_off' = raw_off

\* C14: a decompressor call that puts out nothing leaves the EOF flag alone
\* and leaves read() in its loop with the same bytes still wanted; the flag
\* is set only in a step whose raw read returned nothing.
C14_ZeroOutputIsNotEof ==
    /\ [][ZeroOutputStep =>
             /\ eof' = eof
             /\ Wanted(size) /\ size' = size /\ data' = data
             /\ pc' = "read_loop"]_vars
    /\ [][(~eof /\ eof') => (EmptyRawReadStep /\ dec_calls' = dec_calls)]_vars

C14_Witness ==
    /\ pc = "read_loop"
    /\ dec_calls = 1
    /\ dec_out = 0
    /\ raw_off < raw_len
    /\ ~eof
    /\ size > 0

\* The absolute target of the running or last seek: the offset itself from
\* the start, the counter the call found plus the offset from the current
\* position.
PreTarget == IF pre.whence = SEEK_SET THEN pre.arg ELSE pre.pos + pre.arg

\* C15: what seek(offset, whence) does is decided by its absolute target
\* alone, the offset for SEEK_SET and tell() + offset for SEEK_CUR, so
\* seek(d, SEEK_CUR) and seek(tell() + d, SEEK_SET) do the same: behind the
\* counter both raise, otherwise both run with new_pos at the target and end
\* normally with the counter at the target or at the end of the content and
\* the EOF flag set iff it was set or the target lies beyond the content.
\* Any other whence raises.
C15_CurIsSetFromTell ==
    pre.op = "seek" =>
        IF pre.whence \notin {SEEK_SET, SEEK_CUR}
        THEN pc = "idle" /\ last.op = "seek" /\ last.err = "Error: whence"
        ELSE IF PreTarget < pre.pos
        THEN pc = "idle" /\ last.op = "seek" /\ last.err = "Error: backward"
        ELSE /\ pc # "idle" => new_pos = PreTarget
             /\ pc = "idle" =>
                   /\ LastOk("seek")
                   /\ Tell = Min(PreTarget, Len(Content))
                   /\ eof = (pre.eof \/ PreTarget > Len(Content))

C15_Witness ==
    /\ pre.op = "seek" /\ pre.whence = SEEK_CUR
    /\ pre.pos = 1 /\ pre.arg = 1
    /\ pc = "idle"
    /\ LastOk("seek")
    /\ Tell = 2

\* C16: when seek returns without raising, tell() is the target of the seek.
C16_SeekReachesTarget ==
    (pc = "idle" /\ pre.op = "seek" /\ LastOk("seek")) => Tell = PreTarget

\* C17: a seek with an unsupported whence or a backward target is rejected
\* (it raises), and has then read nothing: counter, buffer, cursor and EOF
\* flag are as the call found them and the raw source was not read.
C17_RejectedSeekChangesNothing ==
    ( /\ pre.op = "seek"
      /\ \/ pre.whence \notin {SEEK_SET, SEEK_CUR}
         \/ PreTarget < pre.pos )
    => /\ pc = "idle"
       /\ last.op = "seek"
       /\ last.err \in {"Error: whence", "Error: backward"}
       /\ pos = pre.pos
       /\ buffer = pre.buffer
       /\ buffer_pos = pre.buffer_pos
       /\ eof = pre.eof
       /\ raw_reads = pre.raw_reads
       /\ dec_calls = pre.dec_calls

C17_Witness ==
    /\ pc = "idle"
    /\ pre.op = "seek" /\ pre.whence = SEEK_SET /\ pre.arg = 0
    /\ last.err = "Error: backward"
    /\ pre.pos = 1
    /\ Undelivered # <<>>
    /\ raw_off < raw_len

\* C18: with the fake seek, the counter plus the bytes still buffered is the
\* number of bytes put out by the decompression function (by the raw source
\* when there is none); while a read() runs, the bytes it has collected and
\* not yet returned count with them.
C18_CountedOrBuffered ==
    has_pos => Tell + Len(data) + Len(Undelivered) = Len(Produced)

C18_Witness ==
    /\ has_pos
    /\ pc = "idle"
    /\ Tell = 1
    /\ Len(Undelivered) = 1
    /\ Len(Produced) = 2

\* The steps inside a call, from the call to its return.
Running ==
    ReadLoop \/ ReadExit \/ SeekLoop \/ SeekGot \/ SeekEnd

\* How far a call is from its return at most: the bytes seek() has still to
\* skip, the bytes the raw source has left, and the place in the code.
Place ==
    CASE pc = "idle" -> 0
      [] pc = "seek_end" -> 1
      [] pc = "seek_got" -> 2
      [] pc = "read_exit" -> 3
      [] pc = "read_loop" -> 4
      [] pc = "seek_loop" -> 5

Rank == 4 * Max(to_read, 0) + (raw_len - raw_off) + Place

\* C19: every read() and every seek() terminates.  A running call can
\* always take a step, and every step of a running call lowers Rank, a
\* natural number; read() leaves its loop only with the request met or the
\* EOF flag set, seek() its loop only with the gap closed or after an empty
\* read.
C19_CallsTerminate ==
    /\ [](Rank >= 0)
    /\ [](pc # "idle" => ENABLED Running)
    /\ [][Running => Rank' < Rank]_vars
    /\ []((pc = "read_exit") => eof)
    /\ []((pc = "seek_end") => (eof /\ to_read > 0))

C19_Witness ==
    /\ pc = "idle"
    /\ LastOk("seek")
    /\ pre.op = "seek" /\ pre.arg = 2 /\ pre.pos = 0
    /\ decompress_func
    /\ raw_reads = 3
    /\ dec_calls = 2
    /\ dec_out = 1

====
